---- MODULE Spec2Model ----
(***************************************************************************)
(* A model of quiz/types.py: the SelectionSet builder (field access, call, *)
(* bracket-nesting) and the validation of a selection set against a type   *)
(* (_check_field, _check_args, ObjectMeta.__getitem__, query).             *)
(*                                                                         *)
(* A SelectionSet is the tuple of its selections; a Field is the record    *)
(* [name, kwargs, selection_set]; kwargs is a function from argument names *)
(* to values; a value is [cls, elems]: its runtime class and, for a list,  *)
(* the classes of its elements.  A type descriptor is a sequence of names: *)
(* the wrappers from the outside in, then the wrapped class, so            *)
(* Nullable[List[Dog]] is <<"Nullable", "List", "Dog">>.                   *)
(*                                                                         *)
(* Further parts: the serializer (the __gql__ methods and argument_as_gql, *)
(* over texts kept line by line), the wrapper classes List[...] and        *)
(* Nullable[...] as objects with an identity, and the resolution of a      *)
(* TypeRef of the introspection document to a type descriptor.             *)
(***************************************************************************)
EXTENDS Integers, Sequences, FiniteSets, TLC

VARIABLES
    optimized,  \* the interpreter runs with -O: assert statements are skipped
    sets,       \* the SelectionSet objects made so far; sets[1] is `selector`
    called,     \* called[i]: sets[i] came from a call with no field access since
    last,       \* the builder operation performed last, with its outcome
    vcls,       \* validation: the type the selection set is validated against
    vsel,       \* validation: the selection set handed to the validator
    vop,        \* validation: the entry point applied, "" before it ran
    vres,       \* validation: what the entry point returned or raised
    vagain,     \* validation: what validating the result's selection set
                \* once more returned or raised
    gsel,       \* serialization: the selection set the caller holds
    gop,        \* serialization: the node serialized, "" before
    gres,       \* serialization: the text returned, or the error raised
    wrappers,   \* wrapper types: the List[...] and Nullable[...] classes made
    wcmp,       \* wrapper types: the comparison made last, with its result
    typeref,    \* schema loading: the TypeRef of the introspection document
    resolved    \* schema loading: the type resolve_typeref returned for it

\* the variables of the serializer
gqlVars == <<gsel, gop, gres>>

\* the variables of the wrapper types
typeVars == <<wrappers, wcmp>>

\* the variables of the schema loader
refVars == <<typeref, resolved>>

vars ==
    <<optimized, sets, called, last, vcls, vsel, vop, vres, vagain, gqlVars,
      typeVars, refVars>>

(***************************************************************************)
(* Bounds.                                                                 *)
(***************************************************************************)
\* SelectionSet objects a builder run creates, `selector` included
MaxObjs == 5
\* selections of the selection set handed to the validator
MaxSel == 2
\* elements of a list value
MaxListLen == 1
\* wrapper classes a run creates
MaxWrappers == 3
\* NON_NULL and LIST layers of a TypeRef around the type it names
MaxRefDepth == 3

(***************************************************************************)
(* Values and keyword arguments.                                           *)
(***************************************************************************)
Scalar(c) == [cls |-> c, elems |-> <<>>]

SeqsUpTo(S, n) == UNION {[1..k -> S] : k \in 0..n}

ListOf(cs) == [cls |-> "list", elems |-> cs]

\* every mapping of some of the names to the values
KwargsOver(names, values) == UNION {[S -> values] : S \in SUBSET names}

\* FrozenDict.EMPTY, the default kwargs of a Field
NoKwargs == <<>>

(***************************************************************************)
(* Fields and selection sets.                                              *)
(***************************************************************************)
\* Field(name, kwargs, selection_set)
MkField(name, kwargs, selection_set) ==
    [name |-> name, kwargs |-> kwargs, selection_set |-> selection_set]

\* Field(name): kwargs and selection_set take the defaults of __defaults__
BareField(name) == MkField(name, NoKwargs, <<>>)

\* the module-level `selector`
selector == <<>>

\* *rest, target = self.__selections__
Rest(s) == SubSeq(s, 1, Len(s) - 1)

Target(s) == s[Len(s)]

\* the names of the top-level fields, in iteration order
NamesOf(s) == [i \in 1..Len(s) |-> s[i].name]

\* the record of a builder operation: what was applied to which objects, and
\* whether it returned a SelectionSet or what it raised
NoOp ==
    [op |-> "none", recv |-> 0, name |-> "", kwargs |-> NoKwargs, arg |-> 0,
     outcome |-> "none"]

Op(op, recv, name, kwargs, arg, outcome) ==
    [op |-> op, recv |-> recv, name |-> name, kwargs |-> kwargs, arg |-> arg,
     outcome |-> outcome]

(***************************************************************************)
(* Type descriptors.  The schema is the one of tests/test_types.py (Dog,   *)
(* Human, Query, the enum Command) and one more class made the same way,   *)
(*     class Kennel(Object):                                               *)
(*         dogs = FieldSchema('dogs', ..., type=List[Nullable[Dog]],       *)
(*                   args={'commands': Nullable[List[Command]],            *)
(*                         'command': Command})                            *)
(* whose field declares two arguments, a Nullable[List[...]] among them,   *)
(* and returns a wrapped object type.  The fixture declares the argument   *)
(* of Dog.is_housetrained as typing.Optional[bool], which is no class:     *)
(* the descriptor <<"Optional", "bool">>.                                  *)
(***************************************************************************)
InputValue(name, type) == [name |-> name, type |-> type]

FieldSchema(name, type, args) == [name |-> name, type |-> type, args |-> args]

\* the classes made by ObjectMeta: the ones that take T[selection_set]
ObjectTypes == {"Dog", "Human", "Query", "Kennel"}

\* the classes query() is handed: the query type, and a class that is no Object
Classes == {"Query", "Kennel", "str"}

\* a class attribute: the name it is bound to in the class body, and the
\* FieldSchema bound to it
Attribute(attr, schema) == [attr |-> attr, schema |-> schema]

\* the fields of class Kennel
KennelFields ==
    << Attribute("dogs",
           FieldSchema("dogs", <<"List", "Nullable", "Dog">>,
               <<InputValue("commands", <<"Nullable", "List", "Command">>),
                 InputValue("command", <<"Command">>)>>)) >>

\* the FieldSchema attributes of a class, in declaration order; the fixture
\* binds Query's field, whose name is dog, to the attribute `doc`
Fields(cls) ==
    CASE cls = "Dog" ->
           << Attribute("name", FieldSchema("name", <<"str">>, <<>>)),
              Attribute("is_housetrained",
                  FieldSchema("is_housetrained", <<"bool">>,
                      <<InputValue("at_other_homes", <<"Optional", "bool">>)>>)),
              Attribute("bark_volume", FieldSchema("bark_volume", <<"int">>, <<>>)),
              Attribute("knows_command",
                  FieldSchema("knows_command", <<"bool">>,
                      <<InputValue("command", <<"Command">>)>>)),
              Attribute("owner", FieldSchema("owner", <<"Human">>, <<>>)) >>
      [] cls = "Human" ->
           << Attribute("name", FieldSchema("name", <<"str">>, <<>>)) >>
      [] cls = "Query" ->
           << Attribute("doc", FieldSchema("dog", <<"Dog">>, <<>>)) >>
      [] cls = "Kennel" -> KennelFields
      [] OTHER -> <<>>

\* the names getattr(cls, name) finds a FieldSchema by
FieldNames(cls) == {Fields(cls)[i].attr : i \in 1..Len(Fields(cls))}

\* getattr(cls, name)
FieldNamed(cls, name) ==
    Fields(cls)[CHOOSE i \in 1..Len(Fields(cls)) : Fields(cls)[i].attr = name].schema

\* attributes every class has without declaring a field of that name, among
\* the names a selection may carry: getattr(cls, "mro") is type.mro
ClassAttrs(cls) == {"mro"}

ArgNamesOf(schema) == {schema.args[i].name : i \in 1..Len(schema.args)}

\* the descriptor is a class; typing.Optional[...] is none, and issubclass
\* raises TypeError for it
IsClass(type) == type[1] # "Optional"

\* issubclass(type_, Nullable), for a class
IsNullable(type) == type[1] = "Nullable"

RECURSIVE _unwrap_list_or_nullable(_)
_unwrap_list_or_nullable(type) ==
    IF type[1] \in {"Nullable", "List"}
    THEN _unwrap_list_or_nullable(Tail(type))
    ELSE type

\* isinstance(value, cls) for a plain class: bool is a subclass of int
IsInstanceOfClass(value, cls) ==
    \/ cls = "object"
    \/ value.cls = cls
    \/ value.cls = "bool" /\ cls = "int"

\* an instance check of List[T] that does not look at the elements
RECURSIVE IsInstanceAnyList(_, _)
IsInstanceAnyList(value, type) ==
    CASE type[1] = "Nullable" ->
           value.cls = "NoneType" \/ IsInstanceAnyList(value, Tail(type))
      [] type[1] = "Optional" ->
           value.cls = "NoneType" \/ IsInstanceOfClass(value, type[2])
      [] type[1] = "List" -> value.cls = "list"
      [] OTHER -> IsInstanceOfClass(value, type[1])

\* isinstance(value, type): NullableMeta and ListMeta.__instancecheck__; for
\* typing.Optional[cls] (Python 3.10 and later) the class of the value is
\* NoneType or a subclass of cls
RECURSIVE IsInstance(_, _)
IsInstance(value, type) ==
    CASE type[1] = "Nullable" ->
           value.cls = "NoneType" \/ IsInstance(value, Tail(type))
      [] type[1] = "Optional" ->
           value.cls = "NoneType" \/ IsInstanceOfClass(value, type[2])
      [] type[1] = "List" ->
           /\ value.cls = "list"
           /\ \A i \in 1..Len(value.elems) :
                  IsInstance(Scalar(value.elems[i]), Tail(type))
      [] OTHER -> IsInstanceOfClass(value, type[1])

(***************************************************************************)
(* Text.  A text is the sequence of its lines; a line is the number of     *)
(* spaces it starts with and the tokens after them.  A line of spaces only *)
(* has no tokens.  The empty string is one line of no spaces and no tokens.*)
(***************************************************************************)
Line(lead, body) == [lead |-> lead, body |-> body]

\* the one-line text of one token
Tok(s) == <<Line(0, <<s>>)>>

\* the text of n spaces
Sp(n) == <<Line(n, <<>>)>>

EmptyText == Sp(0)

Spaces(n) == [i \in 1..n |-> " "]

\* a + b for strings: the last line of a runs on into the first line of b
Cat(a, b) ==
    LET x == a[Len(a)]
        y == b[1]
        joined == IF x.body = <<>>
                  THEN Line(x.lead + y.lead, y.body)
                  ELSE Line(x.lead, x.body \o Spaces(y.lead) \o y.body)
    IN  SubSeq(a, 1, Len(a) - 1) \o <<joined>> \o Tail(b)

\* INDENT = "  ": the width of one level of indentation
INDENT == 2

\* textwrap.indent(text, prefix): the prefix goes before every line that
\* does not consist solely of whitespace
indent(text, prefix) ==
    [i \in 1..Len(text) |->
        IF text[i].body = <<>> THEN text[i]
        ELSE Line(text[i].lead + prefix, text[i].body)]

\* what a serializer returns or raises
NoText == [kind |-> "none", text |-> <<>>]

\* the node a serializer was applied to: its kind, for a Field its place in
\* the selection set, for an InlineFragment its type
NoNode == [node |-> "", index |-> 0, on |-> ""]

\* a comparison of two wrapper classes: which two, and what == returned
NoComparison == [left |-> 0, right |-> 0, equal |-> FALSE]

(***************************************************************************)
(* What validation returns or raises.                                      *)
(***************************************************************************)
NoValue == [cls |-> "", elems |-> <<>>]

Outcome(kind, on, field, name, value, selection_set) ==
    [kind |-> kind, on |-> on, field |-> field, name |-> name,
     value |-> value, selection_set |-> selection_set]

NoResult == Outcome("none", <<>>, "", "", NoValue, <<>>)

\* the check passed
Passed == Outcome("passed", <<>>, "", "", NoValue, <<>>)

NoSuchField(on, name) == Outcome("NoSuchField", on, "", name, NoValue, <<>>)

NoSuchArgument(on, field, name) ==
    Outcome("NoSuchArgument", on, field, name, NoValue, <<>>)

MissingArgument(on, field, name) ==
    Outcome("MissingArgument", on, field, name, NoValue, <<>>)

InvalidArgumentType(on, field, name, value) ==
    Outcome("InvalidArgumentType", on, field, name, value, <<>>)

\* issubclass() arg 1 must be a class
IssubclassTypeError == Outcome("TypeError", <<>>, "", "", NoValue, <<>>)

\* reading .args of an attribute that is no FieldSchema
AttributeError(on, name) == Outcome("AttributeError", on, "", name, NoValue, <<>>)

InlineFragment(on, selection_set) ==
    Outcome("InlineFragment", on, "", "", NoValue, selection_set)

\* Operation(OperationType.QUERY, selection_set)
Operation(selection_set) ==
    Outcome("Operation", <<>>, "query", "", NoValue, selection_set)

(***************************************************************************)
(* The validator.  Each check yields the set of its possible outcomes:     *)
(* set.pop() picks an arbitrary one of the undeclared argument names.      *)
(***************************************************************************)
\* a loop that lets every absent argument pass, Nullable or not
RECURSIVE CheckParamsAbsentPasses(_, _, _, _)
CheckParamsAbsentPasses(cls, field, kwargs, i) ==
    IF i > Len(field.args) THEN Passed
    ELSE LET param == field.args[i] IN
         IF param.name \notin DOMAIN kwargs
         THEN CheckParamsAbsentPasses(cls, field, kwargs, i + 1)
         ELSE IF ~IsInstance(kwargs[param.name], param.type)
              THEN InvalidArgumentType(cls, field.name, param.name,
                                       kwargs[param.name])
              ELSE CheckParamsAbsentPasses(cls, field, kwargs, i + 1)

\* the loop of _check_args over field.args.values(), from the i-th on
RECURSIVE CheckParams(_, _, _, _)
CheckParams(cls, field, kwargs, i) ==
    IF i > Len(field.args) THEN Passed
    ELSE LET param == field.args[i] IN
         IF param.name \notin DOMAIN kwargs
         THEN IF ~IsClass(param.type)
              THEN IssubclassTypeError
              ELSE IF ~IsNullable(param.type)
              THEN MissingArgument(cls, field.name, param.name)
              ELSE CheckParams(cls, field, kwargs, i + 1)
         ELSE IF ~IsInstance(kwargs[param.name], param.type)
              THEN InvalidArgumentType(cls, field.name, param.name,
                                       kwargs[param.name])
              ELSE CheckParams(cls, field, kwargs, i + 1)

\* a check that looks for undeclared names only after the declared arguments
\* passed
_check_args_params_first(cls, field, kwargs) ==
    LET invalid_args == DOMAIN kwargs \ ArgNamesOf(field)
        params == CheckParams(cls, field, kwargs, 1)
    IN  IF params # Passed THEN {params}
        ELSE IF invalid_args # {}
        THEN {NoSuchArgument(cls, field.name, n) : n \in invalid_args}
        ELSE {Passed}

_check_args(cls, field, kwargs) ==
    LET invalid_args == DOMAIN kwargs \ ArgNamesOf(field) IN
    IF invalid_args # {}
    THEN {NoSuchArgument(cls, field.name, n) : n \in invalid_args}
    ELSE {CheckParams(cls, field, kwargs, 1)}

RECURSIVE _check_field(_, _)
RECURSIVE CheckSelections(_, _, _)

\* for f in selection_set: _check_field(parent, f), from the i-th on
CheckSelections(parent, selection_set, i) ==
    IF i > Len(selection_set) THEN {Passed}
    ELSE LET here == _check_field(parent, selection_set[i]) IN
         (here \ {Passed}) \cup
         (IF Passed \in here
          THEN CheckSelections(parent, selection_set, i + 1)
          ELSE {})

_check_field(parent, field) ==
    LET cls == parent[1] IN
    IF field.name \in FieldNames(cls)
    THEN LET schema == FieldNamed(cls, field.name)
             args == _check_args(parent, schema, field.kwargs)
         IN  (args \ {Passed}) \cup
             (IF Passed \in args
              THEN CheckSelections(_unwrap_list_or_nullable(schema.type),
                                   field.selection_set, 1)
              ELSE {})
    ELSE IF field.name \in ClassAttrs(cls)
    THEN {AttributeError(parent, field.name)}
    ELSE {NoSuchField(parent, field.name)}

\* a validator that approves the tree but hands back only its first selection
ObjectMetaGetitemFirstOnly(cls, selection_set) ==
    {IF r = Passed
     THEN InlineFragment(cls, IF selection_set = <<>> THEN <<>>
                              ELSE <<selection_set[1]>>)
     ELSE r :
        r \in CheckSelections(cls, selection_set, 1)}

\* ObjectMeta.__getitem__(cls, selection_set): what cls[selection_set]
\* returns or raises
ObjectMetaGetitem(cls, selection_set) ==
    {IF r = Passed THEN InlineFragment(cls, selection_set) ELSE r :
        r \in CheckSelections(cls, selection_set, 1)}

\* what query(selection_set, cls) returns or raises
query(selection_set, cls) ==
    {IF r = Passed THEN Operation(selection_set) ELSE r :
        r \in CheckSelections(cls, selection_set, 1)}

\* cls[selection_set]
ObjectGetItem(cls) ==
    /\ vop = ""
    /\ vop' = "getitem"
    /\ vcls' = <<cls>>
    /\ vres' \in ObjectMetaGetitem(<<cls>>, vsel)
    /\ UNCHANGED <<optimized, sets, called, last, vsel, vagain, gqlVars, typeVars, refVars>>

\* query(selection_set, cls)
Query(cls) ==
    /\ vop = ""
    /\ vop' = "query"
    /\ vcls' = <<cls>>
    /\ vres' \in query(vsel, <<cls>>)
    /\ UNCHANGED <<optimized, sets, called, last, vsel, vagain, gqlVars, typeVars, refVars>>

\* the caller validates the selection set of a result against the same type
\* through the same entry point: cls[fragment.selection_set], or
\* query(operation.selection_set, cls)
Revalidate ==
    /\ vres.kind \in {"InlineFragment", "Operation"}
    /\ vagain = NoResult
    /\ vagain' \in IF vop = "getitem"
                   THEN ObjectMetaGetitem(vcls, vres.selection_set)
                   ELSE query(vres.selection_set, vcls)
    /\ UNCHANGED <<optimized, sets, called, last, vcls, vsel, vop, vres, gqlVars, typeVars, refVars>>

(***************************************************************************)
(* The selection sets handed to the validator: every set of up to MaxSel   *)
(* fields with few arguments and a small nested set, and every set of one  *)
(* field with any arguments.                                               *)
(***************************************************************************)
SelNames == {"name", "knows_command", "owner", "dogs", "foo", "mro"}

SelKwargs == KwargsOver({"command"}, {Scalar("Command")})

SelNested == {<<>>, <<BareField("name")>>, <<BareField("foo")>>, <<BareField("mro")>>}

SelFields ==
    {MkField(n, k, s) : n \in SelNames, k \in SelKwargs, s \in SelNested}

ArgFieldNames == {"name", "is_housetrained", "knows_command", "dogs", "doc"}

ArgNames == {"command", "commands", "at_other_homes", "foo"}

ElemClasses == {"Command", "str"}

ArgValues ==
    {Scalar(c) : c \in {"Command", "str", "bool", "NoneType"}}
    \cup {ListOf(cs) : cs \in SeqsUpTo(ElemClasses, MaxListLen)}

ArgFields ==
    {MkField(n, k, <<>>) : n \in ArgFieldNames, k \in KwargsOver(ArgNames, ArgValues)}

InitValidate ==
    /\ optimized = FALSE
    /\ sets = <<selector>>
    /\ called = <<FALSE>>
    /\ last = NoOp
    /\ vcls = <<>>
    /\ vsel \in SeqsUpTo(SelFields, MaxSel) \cup {<<f>> : f \in ArgFields}
    /\ vop = ""
    /\ vres = NoResult
    /\ vagain = NoResult
    /\ gsel = <<>>
    /\ gop = NoNode
    /\ gres = NoText
    /\ wrappers = <<>>
    /\ wcmp = NoComparison
    /\ typeref = <<>>
    /\ resolved = <<>>

NextValidate ==
    \/ \E cls \in ObjectTypes : ObjectGetItem(cls)
    \/ \E cls \in Classes : Query(cls)
    \/ Revalidate

SpecValidate == InitValidate /\ [][NextValidate]_vars

(***************************************************************************)
(* The builder.  Attribute access reaches __getattr__ only when the normal *)
(* lookup finds nothing: a name the class itself defines yields that       *)
(* attribute.  Of those names, _make is one a GraphQL field may carry.     *)
(***************************************************************************)
SelectionSetAttrs == {"_make"}

\* names a caller accesses on a SelectionSet
BuildNames == {"foo", "bar", "_make"}

\* keyword names and values a caller passes to a call; `self` is the name of
\* __call__'s own first parameter
BuildArgNames == {"command", "self"}

BuildValues == {Scalar("Command")}

BuildKwargs == KwargsOver(BuildArgNames, BuildValues)

\* SelectionSet.__getattr__
SelectionSetGetattr(s, name) == Append(s, BareField(name))

\* a call that keeps the arguments of an earlier call
SelectionSetCallKeepsFirst(s, kwargs) ==
    Append(Rest(s),
           [Target(s) EXCEPT !.kwargs =
               IF Target(s).kwargs = NoKwargs THEN kwargs ELSE Target(s).kwargs])

\* SelectionSet.__call__, past the unpacking
SelectionSetCall(s, kwargs) ==
    Append(Rest(s), [Target(s) EXCEPT !.kwargs = kwargs])

\* SelectionSet.__getitem__, past the unpacking and the assertions
SelectionSetGetitem(s, selection_set) ==
    Append(Rest(s), [Target(s) EXCEPT !.selection_set = selection_set])

\* a field access that appends to the receiver's own tuple and returns it
GetAttrInPlace(r, name) ==
    /\ Len(sets) < MaxObjs
    /\ sets' = Append([sets EXCEPT ![r] = Append(@, BareField(name))],
                      Append(sets[r], BareField(name)))
    /\ called' = Append(called, FALSE)
    /\ last' = Op("getattr", r, name, NoKwargs, 0, "SelectionSet")
    /\ UNCHANGED <<optimized, vcls, vsel, vop, vres, vagain, gqlVars, typeVars, refVars>>

\* r.<name> on the object sets[r]
GetAttr(r, name) ==
    /\ Len(sets) < MaxObjs
    /\ IF name \in SelectionSetAttrs
       THEN /\ UNCHANGED <<sets, called>>
            /\ last' = Op("getattr", r, name, NoKwargs, 0, "attribute")
       ELSE /\ sets' = Append(sets, SelectionSetGetattr(sets[r], name))
            /\ called' = Append(called, FALSE)
            /\ last' = Op("getattr", r, name, NoKwargs, 0, "SelectionSet")
    /\ UNCHANGED <<optimized, vcls, vsel, vop, vres, vagain, gqlVars, typeVars, refVars>>

\* r(**kwargs) on the object sets[r]
Call(r, kwargs) ==
    /\ Len(sets) < MaxObjs
    /\ IF "self" \in DOMAIN kwargs
       THEN \* the keyword collides with the parameter `self` of __call__
            /\ UNCHANGED <<sets, called>>
            /\ last' = Op("call", r, "", kwargs, 0, "TypeError")
       ELSE IF Len(sets[r]) = 0
       THEN /\ UNCHANGED <<sets, called>>
            /\ last' = Op("call", r, "", kwargs, 0, "Error")
       ELSE /\ sets' = Append(sets, SelectionSetCall(sets[r], kwargs))
            /\ called' = Append(called, TRUE)
            /\ last' = Op("call", r, "", kwargs, 0, "SelectionSet")
    /\ UNCHANGED <<optimized, vcls, vsel, vop, vres, vagain, gqlVars, typeVars, refVars>>

\* r[a] on the objects sets[r] and sets[a]
GetItem(r, a) ==
    /\ Len(sets) < MaxObjs
    /\ IF Len(sets[r]) = 0
       THEN /\ UNCHANGED <<sets, called>>
            /\ last' = Op("getitem", r, "", NoKwargs, a, "Error")
       ELSE IF ~optimized /\ Len(sets[a]) < 1
       THEN /\ UNCHANGED <<sets, called>>
            /\ last' = Op("getitem", r, "", NoKwargs, a, "AssertionError")
       ELSE /\ sets' = Append(sets, SelectionSetGetitem(sets[r], sets[a]))
            /\ called' = Append(called, called[r])
            /\ last' = Op("getitem", r, "", NoKwargs, a, "SelectionSet")
    /\ UNCHANGED <<optimized, vcls, vsel, vop, vres, vagain, gqlVars, typeVars, refVars>>

InitBuild ==
    /\ optimized \in BOOLEAN
    /\ sets = <<selector>>
    /\ called = <<FALSE>>
    /\ last = NoOp
    /\ vcls = <<>>
    /\ vsel = <<>>
    /\ vop = ""
    /\ vres = NoResult
    /\ vagain = NoResult
    /\ gsel = <<>>
    /\ gop = NoNode
    /\ gres = NoText
    /\ wrappers = <<>>
    /\ wcmp = NoComparison
    /\ typeref = <<>>
    /\ resolved = <<>>

NextBuild ==
    \/ \E r \in 1..Len(sets), name \in BuildNames : GetAttr(r, name)
    \/ \E r \in 1..Len(sets), kwargs \in BuildKwargs : Call(r, kwargs)
    \/ \E r \in 1..Len(sets), a \in 1..Len(sets) : GetItem(r, a)

SpecBuild == InitBuild /\ [][NextBuild]_vars

(***************************************************************************)
(* Properties of the builder, checked under SpecBuild.                     *)
(***************************************************************************)
\* the object the last operation returned, when it returned a SelectionSet
Result == sets[Len(sets)]

Receiver == sets[last.recv]

Returned == last.outcome = "SelectionSet"

\* C1: no builder operation changes an existing SelectionSet: every object
\* made so far, the receiver, the nested argument and `selector` included,
\* has after the operation the selections it had before, and an operation
\* that returns a SelectionSet returns a new object.
C1_BuilderOperationsChangeNoObject ==
    [][/\ Len(sets') >= Len(sets)
       /\ \A i \in 1..Len(sets) : sets'[i] = sets[i]
       /\ sets'[1] = selector
       /\ last'.outcome = "SelectionSet" => Len(sets') = Len(sets) + 1]_vars

\* C1: one selection set is nested into two different parents
C1_SplicedIntoTwoParents ==
    \E i, j, k \in 1..Len(sets) :
        /\ Len(sets[i]) > 0 /\ Len(sets[j]) > 0 /\ Len(sets[k]) > 0
        /\ sets[j] # sets[k]
        /\ Target(sets[j]).selection_set = sets[i]
        /\ Target(sets[k]).selection_set = sets[i]

\* C2: a field access by name returns the receiver's selections followed by
\* the bare Field(name), so the names of the result are the accessed names in
\* access order.
C2_FieldAccessAppendsBareField ==
    last.op = "getattr" =>
        /\ Returned
        /\ Result = Append(Receiver, BareField(last.name))
        /\ NamesOf(Result) = Append(NamesOf(Receiver), last.name)

\* C3: a call or a nesting on a non-empty SelectionSet returns a set of the
\* same length whose selections before the last are unchanged and whose last
\* field keeps its name; the call sets exactly the given arguments and keeps
\* the nested set, the nesting sets exactly the given nested set and keeps the
\* arguments.
C3_CallAndNestingReplaceLastField ==
    /\ (last.op = "call" /\ Len(Receiver) > 0) =>
           /\ Returned
           /\ Len(Result) = Len(Receiver)
           /\ Rest(Result) = Rest(Receiver)
           /\ Target(Result).name = Target(Receiver).name
           /\ Target(Result).kwargs = last.kwargs
           /\ Target(Result).selection_set = Target(Receiver).selection_set
    /\ (last.op = "getitem" /\ Len(Receiver) > 0 /\ Len(sets[last.arg]) > 0) =>
           /\ Returned
           /\ Len(Result) = Len(Receiver)
           /\ Rest(Result) = Rest(Receiver)
           /\ Target(Result).name = Target(Receiver).name
           /\ Target(Result).selection_set = sets[last.arg]
           /\ Target(Result).kwargs = Target(Receiver).kwargs

\* C4: a call, or a nesting, on an empty SelectionSet fails with the builder's
\* Error and returns no SelectionSet.
C4_EmptyReceiverFailsWithError ==
    (last.op \in {"call", "getitem"} /\ Len(Receiver) = 0) =>
        last.outcome = "Error"

\* C5 as stated: a second call on the same most recent Field, with no field
\* access in between, fails with the builder's Error.
C5_RepeatedCallFailsWithError ==
    (last.op = "call" /\ called[last.recv]) => last.outcome = "Error"

\* C5 as amended: a second call on the same most recent Field does not fail
\* with the builder's Error; when it returns, the result is a new SelectionSet
\* in which that Field has exactly the arguments of the second call and is
\* otherwise unchanged.
C5_RepeatedCallOverwrites ==
    (last.op = "call" /\ called[last.recv]) =>
        /\ last.outcome # "Error"
        /\ Returned =>
               /\ Len(Result) = Len(Receiver)
               /\ Rest(Result) = Rest(Receiver)
               /\ Target(Result).name = Target(Receiver).name
               /\ Target(Result).kwargs = last.kwargs
               /\ Target(Result).selection_set = Target(Receiver).selection_set

\* C5: a second call returned, with arguments other than the first call's
C5_SecondCallReturned ==
    /\ last.op = "call" /\ called[last.recv] /\ Returned
    /\ Target(Receiver).kwargs # NoKwargs
    /\ last.kwargs # Target(Receiver).kwargs

\* C6: nesting an empty SelectionSet into a non-empty one fails with the
\* builder's Error.
C6_EmptyNestedSetFailsWithError ==
    (last.op = "getitem" /\ Len(Receiver) > 0 /\ Len(sets[last.arg]) = 0) =>
        last.outcome = "Error"

(***************************************************************************)
(* Properties of the validator, checked under SpecValidate.                *)
(***************************************************************************)
Validated == vop # ""

\* the i-th selection is the one validation stops at or passes: every
\* selection before it passes
Reached(i) == CheckSelections(vcls, SubSeq(vsel, 1, i - 1), 1) = {Passed}

\* the i-th selection names a field the validated type declares
Declared(i) == vsel[i].name \in FieldNames(vcls[1])

SchemaOf(i) == FieldNamed(vcls[1], vsel[i].name)

Undeclared(i) == DOMAIN vsel[i].kwargs \ ArgNamesOf(SchemaOf(i))

\* the membership test as the specification words it
RECURSIVE Satisfies(_, _)
Satisfies(value, type) ==
    IF type[1] \in {"Nullable", "Optional"}
    THEN value = Scalar("NoneType") \/ Satisfies(value, Tail(type))
    ELSE IF type[1] = "List"
    THEN /\ value.cls = "list"
         /\ \A k \in 1..Len(value.elems) :
                Satisfies(Scalar(value.elems[k]), Tail(type))
    ELSE IsInstanceOfClass(value, type[1])

\* the argument is declared with a type of the type system that is not
\* Nullable: a class or a List[...]
NonNullable(type) == type[1] \notin {"Nullable", "Optional"}

\* the selection supplies a fitting value for, or may omit, every argument
\* declared before the j-th
EarlierArgsPass(i, j) ==
    \A k \in 1..(j - 1) :
        LET param == SchemaOf(i).args[k] IN
        IF param.name \in DOMAIN vsel[i].kwargs
        THEN Satisfies(vsel[i].kwargs[param.name], param.type)
        ELSE param.type[1] = "Nullable"

ArgumentErrors == {"NoSuchArgument", "MissingArgument", "InvalidArgumentType"}

\* C7: validation fails with NoSuchField(on = the type, name) whenever it
\* comes to a selection whose name is no declared field of the type, and
\* accepts no such selection set.
C7_UndeclaredNameFailsWithNoSuchField ==
    Validated =>
        \A i \in 1..Len(vsel) :
            (Reached(i) /\ ~Declared(i)) => vres = NoSuchField(vcls, vsel[i].name)

\* C8 as stated: a selection of f that does not supply the non-Nullable
\* argument a fails with MissingArgument(on = the type, field = f, name = a).
C8_AbsentRequiredArgumentFailsWithMissingArgument ==
    Validated =>
        \A i \in 1..Len(vsel) :
            (Reached(i) /\ Declared(i)) =>
                \A j \in 1..Len(SchemaOf(i).args) :
                    LET param == SchemaOf(i).args[j] IN
                    (NonNullable(param.type) /\ param.name \notin DOMAIN vsel[i].kwargs)
                        => vres = MissingArgument(vcls, SchemaOf(i).name, param.name)

\* C8 as amended: a selection of f that does not supply the non-Nullable
\* argument a always fails, with an argument error on f; the error is
\* MissingArgument(on = the type, field = f, name = a) when the selection
\* supplies no undeclared name and every argument declared before a passes.
C8_AbsentRequiredArgumentFails ==
    Validated =>
        \A i \in 1..Len(vsel) :
            (Reached(i) /\ Declared(i)) =>
                \A j \in 1..Len(SchemaOf(i).args) :
                    LET param == SchemaOf(i).args[j] IN
                    (NonNullable(param.type) /\ param.name \notin DOMAIN vsel[i].kwargs)
                        => /\ vres.kind \in ArgumentErrors
                           /\ vres.on = vcls
                           /\ vres.field = SchemaOf(i).name
                           /\ (Undeclared(i) = {} /\ EarlierArgsPass(i, j))
                                  => vres = MissingArgument(vcls, SchemaOf(i).name,
                                                            param.name)

\* C8: MissingArgument for the second declared argument, the first one
\* supplied with a fitting list
C8_MissingAfterFittingArgument ==
    /\ Validated
    /\ vres = MissingArgument(<<"Kennel">>, "dogs", "command")
    /\ "commands" \in DOMAIN vsel[1].kwargs
    /\ vsel[1].kwargs["commands"].cls = "list"

\* C9: a selection of the declared field f that supplies a name f does not
\* declare fails with NoSuchArgument(on = the type, field = f, name = one of
\* the undeclared names), whatever else is supplied, absent or ill-typed.
C9_UndeclaredArgumentFailsWithNoSuchArgument ==
    Validated =>
        \A i \in 1..Len(vsel) :
            (Reached(i) /\ Declared(i) /\ Undeclared(i) # {}) =>
                /\ vres.kind = "NoSuchArgument"
                /\ vres.on = vcls
                /\ vres.field = SchemaOf(i).name
                /\ vres.name \in Undeclared(i)

\* C9: NoSuchArgument for a selection that supplies two undeclared names,
\* omits a required argument and supplies an ill-typed one
C9_UndeclaredAmongOtherFaults ==
    /\ Validated
    /\ vres.kind = "NoSuchArgument"
    /\ vsel[1].name = "dogs"
    /\ Cardinality(Undeclared(1)) = 2
    /\ "command" \notin DOMAIN vsel[1].kwargs
    /\ "commands" \in DOMAIN vsel[1].kwargs
    /\ ~Satisfies(vsel[1].kwargs["commands"], <<"Nullable", "List", "Command">>)

\* C10 as stated: a selection of f that supplies the declared argument a
\* with a value that does not satisfy a's type fails with
\* InvalidArgumentType(on = the type, field = f, name = a, value).
C10_IllTypedArgumentFailsWithInvalidArgumentType ==
    Validated =>
        \A i \in 1..Len(vsel) :
            (Reached(i) /\ Declared(i)) =>
                \A j \in 1..Len(SchemaOf(i).args) :
                    LET param == SchemaOf(i).args[j] IN
                    (/\ param.name \in DOMAIN vsel[i].kwargs
                     /\ ~Satisfies(vsel[i].kwargs[param.name], param.type))
                        => vres = InvalidArgumentType(vcls, SchemaOf(i).name, param.name,
                                                      vsel[i].kwargs[param.name])

\* C10 as amended: a selection of f that supplies the declared argument a
\* with a value that does not satisfy a's type always fails, with an argument
\* error on f; the error is InvalidArgumentType(on = the type, field = f,
\* name = a, value) when the selection supplies no undeclared name and every
\* argument declared before a passes.
C10_IllTypedArgumentFails ==
    Validated =>
        \A i \in 1..Len(vsel) :
            (Reached(i) /\ Declared(i)) =>
                \A j \in 1..Len(SchemaOf(i).args) :
                    LET param == SchemaOf(i).args[j] IN
                    (/\ param.name \in DOMAIN vsel[i].kwargs
                     /\ ~Satisfies(vsel[i].kwargs[param.name], param.type))
                        => /\ vres.kind \in ArgumentErrors
                           /\ vres.on = vcls
                           /\ vres.field = SchemaOf(i).name
                           /\ (Undeclared(i) = {} /\ EarlierArgsPass(i, j))
                                  => vres = InvalidArgumentType(
                                         vcls, SchemaOf(i).name, param.name,
                                         vsel[i].kwargs[param.name])

\* C10: InvalidArgumentType for a list with an element that is no member of
\* the element type
C10_ListWithIllTypedElement ==
    /\ Validated
    /\ vres.kind = "InvalidArgumentType"
    /\ vres.name = "commands"
    /\ vres.value.cls = "list"
    /\ Len(vres.value.elems) >= 1

\* the type a field returns with every List and Nullable around it removed,
\* as the specification words it: the class the wrappers end in
Stripped(type) == <<type[Len(type)]>>

\* validation comes to the nested selection set of the i-th selection: the
\* selections before it pass, it names a declared field and its arguments pass
NestedReached(i) ==
    /\ Reached(i)
    /\ Declared(i)
    /\ _check_args(vcls, SchemaOf(i), vsel[i].kwargs) = {Passed}

\* C11: the nested selection set of a field is validated against the field's
\* return type with every List and Nullable stripped: when validation comes
\* to a nested selection whose name the stripped type does not declare (every
\* name, when that type is a scalar), it fails with
\* NoSuchField(on = the stripped type, name = the nested name).
C11_NestedSetCheckedAgainstStrippedType ==
    Validated =>
        \A i \in 1..Len(vsel) :
            NestedReached(i) =>
                LET on == Stripped(SchemaOf(i).type)
                    nested == vsel[i].selection_set
                IN  \A k \in 1..Len(nested) :
                        (/\ CheckSelections(on, SubSeq(nested, 1, k - 1), 1) = {Passed}
                         /\ nested[k].name \notin FieldNames(on[1]))
                            => vres = NoSuchField(on, nested[k].name)

\* validation succeeded: the caller holds an InlineFragment or an Operation
Succeeded == Validated /\ vres.kind \in {"InlineFragment", "Operation"}

\* a type is selectable when the class its wrappers end in is an object type
Selectable(type) == Stripped(type)[1] \in ObjectTypes

\* every field of the tree carries a nested selection set exactly when its
\* return type is selectable
RECURSIVE NestingMatchesSelectability(_, _)
NestingMatchesSelectability(parent, selection_set) ==
    \A k \in 1..Len(selection_set) :
        LET field == selection_set[k] IN
        field.name \in FieldNames(parent[1]) =>
            LET type == FieldNamed(parent[1], field.name).type IN
            /\ (Len(field.selection_set) > 0) <=> Selectable(type)
            /\ NestingMatchesSelectability(Stripped(type), field.selection_set)

\* C12: validation succeeds only if every selected field has a non-empty
\* nested selection set exactly when its unwrapped return type is selectable;
\* a field returning an Object that is selected without a nested selection
\* is rejected.
C12_SuccessOnlyWhenNestingMatchesSelectability ==
    Succeeded => NestingMatchesSelectability(vcls, vsel)

\* the result's selection set was validated a second time
Revalidated == vagain # NoResult

\* C13: successful validation does not rewrite the tree: T[S] returns an
\* InlineFragment whose type is T and whose selection set equals S, and
\* query(S, T) an Operation of kind query with selection set S; validating the
\* result's selection set against T again succeeds and returns an equal result.
C13_ValidationApprovesWithoutRewriting ==
    /\ (Succeeded /\ vop = "getitem") =>
           /\ vres.kind = "InlineFragment"
           /\ vres.on = vcls
           /\ vres.selection_set = vsel
    /\ (Succeeded /\ vop = "query") =>
           /\ vres.kind = "Operation"
           /\ vres.field = "query"
           /\ vres.selection_set = vsel
    /\ Revalidated =>
           /\ vagain.kind \in {"InlineFragment", "Operation"}
           /\ vagain = vres

\* a tree of two selections, one with arguments and one nested, validated twice
C13_NestedTreeValidatedTwice ==
    /\ Revalidated
    /\ Len(vsel) = 2
    /\ \E i \in 1..2 : Len(vsel[i].selection_set) > 0
    /\ \E i \in 1..2 : DOMAIN vsel[i].kwargs # {}

(***************************************************************************)
(* The serializer.  A value to serialize carries in elems the text it is   *)
(* written with: a str its characters, line by line; an int its decimal    *)
(* digits; a bool True or False; an enum member its value.                 *)
(***************************************************************************)
StrValue(text) == [cls |-> "str", elems |-> text]

IntValue(digits) == [cls |-> "int", elems |-> Tok(digits)]

BoolValue(b) == [cls |-> "bool", elems |-> Tok(b)]

\* the member of the enum whose value is `value`
Member(enum, value) == [cls |-> enum, elems |-> Tok(value)]

\* the subclasses of enum.Enum
Enums == {"Command"}

\* the classes argument_as_gql has an implementation for; any other class
\* dispatches to the one for object, which raises TypeError
Registered == {"str", "int", "NoneType", "bool"} \cup Enums

argument_as_gql(obj) ==
    CASE obj.cls = "str" -> Cat(Cat(Tok("\""), obj.elems), Tok("\""))
      [] obj.cls = "bool" ->
            IF obj.elems = Tok("True") THEN Tok("true") ELSE Tok("false")
      [] obj.cls = "int" -> obj.elems
      [] obj.cls = "NoneType" -> Tok("null")
      [] obj.cls \in Enums -> obj.elems

\* "{}: {}".format(k, argument_as_gql(v))
ItemGql(k, v) == Cat(Tok(k), Cat(Tok(":"), Cat(Sp(1), argument_as_gql(v))))

\* the orders in which kwargs.items() may yield the arguments
Orders(names) ==
    {o \in [1..Cardinality(names) -> names] :
        \A i, j \in DOMAIN o : o[i] = o[j] => i = j}

\* ', '.join(...) over the items from the i-th on
RECURSIVE JoinItems(_, _, _)
JoinItems(kwargs, order, i) ==
    IF i = Len(order) THEN ItemGql(order[i], kwargs[order[i]])
    ELSE Cat(ItemGql(order[i], kwargs[order[i]]),
             Cat(Tok(","), Cat(Sp(1), JoinItems(kwargs, order, i + 1))))

\* the `arguments` of Field.__gql__
ArgumentsGql(kwargs) ==
    IF DOMAIN kwargs = {} THEN {EmptyText}
    ELSE {Cat(Tok("("), Cat(JoinItems(kwargs, order, 1), Tok(")"))) :
            order \in Orders(DOMAIN kwargs)}

RECURSIVE FieldGql(_)
RECURSIVE SelectionSetGql(_)
RECURSIVE JoinIndented(_, _)

\* '\n'.join(indent(gql(f), INDENT) for f in ...) over the selections from
\* the i-th on: the lines of each, one selection after the other
JoinIndented(selections, i) ==
    IF i > Len(selections) THEN {<<>>}
    ELSE {indent(first, INDENT) \o rest :
            first \in FieldGql(selections[i]),
            rest \in JoinIndented(selections, i + 1)}

\* SelectionSet.__gql__
SelectionSetGql(selections) ==
    IF selections = <<>> THEN {EmptyText}
    ELSE {Tok("{") \o body \o Tok("}") : body \in JoinIndented(selections, 1)}

\* Field.__gql__
FieldGql(field) ==
    {Cat(Cat(Tok(field.name), arguments), selection_set) :
        arguments \in ArgumentsGql(field.kwargs),
        selection_set \in
            IF field.selection_set = <<>> THEN {EmptyText}
            ELSE {Cat(Sp(1), t) : t \in SelectionSetGql(field.selection_set)}}

\* Operation.__gql__ of Operation(OperationType.QUERY, selection_set)
OperationGql(selection_set) ==
    {Cat(Tok("query"), Cat(Sp(1), t)) : t \in SelectionSetGql(selection_set)}

\* InlineFragment.__gql__
InlineFragmentGql(on, selection_set) ==
    {Cat(Tok("..."), Cat(Sp(1), Cat(Tok("on"), Cat(Sp(1), Cat(Tok(on),
         Cat(Sp(1), t)))))) : t \in SelectionSetGql(selection_set)}

\* every argument of the tree is of a class argument_as_gql serializes
RECURSIVE Serializable(_)
Serializable(selections) ==
    \A i \in 1..Len(selections) :
        /\ \A k \in DOMAIN selections[i].kwargs :
               selections[i].kwargs[k].cls \in Registered
        /\ Serializable(selections[i].selection_set)

Text(text) == [kind |-> "text", text |-> text]

\* raise TypeError("cannot serialize to GraphQL: ...")
TypeError == [kind |-> "TypeError", text |-> <<>>]

\* gql(selection_set)
GqlSelectionSet ==
    /\ gop = NoNode
    /\ gop' = [node |-> "SelectionSet", index |-> 0, on |-> ""]
    /\ IF Serializable(gsel)
       THEN \E t \in SelectionSetGql(gsel) : gres' = Text(t)
       ELSE gres' = TypeError
    /\ UNCHANGED <<optimized, sets, called, last, vcls, vsel, vop, vres, vagain, gsel,
                   typeVars, refVars>>

\* gql(field) of the i-th selection of the set
GqlField(i) ==
    /\ gop = NoNode
    /\ i \in 1..Len(gsel)
    /\ gop' = [node |-> "Field", index |-> i, on |-> ""]
    /\ IF Serializable(<<gsel[i]>>)
       THEN \E t \in FieldGql(gsel[i]) : gres' = Text(t)
       ELSE gres' = TypeError
    /\ UNCHANGED <<optimized, sets, called, last, vcls, vsel, vop, vres, vagain, gsel,
                   typeVars, refVars>>

\* gql(Operation(OperationType.QUERY, selection_set))
GqlOperation ==
    /\ gop = NoNode
    /\ gop' = [node |-> "Operation", index |-> 0, on |-> ""]
    /\ IF Serializable(gsel)
       THEN \E t \in OperationGql(gsel) : gres' = Text(t)
       ELSE gres' = TypeError
    /\ UNCHANGED <<optimized, sets, called, last, vcls, vsel, vop, vres, vagain, gsel,
                   typeVars, refVars>>

\* gql(InlineFragment(cls, selection_set))
GqlInlineFragment(cls) ==
    /\ gop = NoNode
    /\ gop' = [node |-> "InlineFragment", index |-> 0, on |-> cls]
    /\ IF Serializable(gsel)
       THEN \E t \in InlineFragmentGql(cls, gsel) : gres' = Text(t)
       ELSE gres' = TypeError
    /\ UNCHANGED <<optimized, sets, called, last, vcls, vsel, vop, vres, vagain, gsel,
                   typeVars, refVars>>

(***************************************************************************)
(* The trees handed to the serializer: every set of up to MaxSel fields    *)
(* with few arguments, and every set of one field with any arguments.  The *)
(* strings are x, the two lines x and y with a line break between them,    *)
(* those two with an empty line between them, and x followed on the next   *)
(* line by a space and y.                                                  *)
(***************************************************************************)
GqlStrings ==
    {Tok("x"),
     <<Line(0, <<"x">>), Line(0, <<"y">>)>>,
     <<Line(0, <<"x">>), Line(0, <<>>), Line(0, <<"y">>)>>,
     <<Line(0, <<"x">>), Line(1, <<"y">>)>>}

GqlValues ==
    {StrValue(t) : t \in GqlStrings} \cup
    {IntValue("4"), Scalar("NoneType"), BoolValue("True"), BoolValue("False"),
     Member("Command", "SIT"), Scalar("float")}

GqlKwargs ==
    KwargsOver({"s"}, GqlValues) \cup KwargsOver({"s", "n"}, {StrValue(Tok("x")), IntValue("4")})

GqlNested ==
    {<<>>,
     <<BareField("b")>>,
     <<BareField("b"), BareField("c")>>,
     <<MkField("b", NoKwargs, <<BareField("c")>>)>>}

GqlThinFields ==
    {MkField("a", k, s) : k \in KwargsOver({"s"}, {StrValue(Tok("x"))}), s \in GqlNested}

GqlRichNested ==
    GqlNested \cup {<<MkField("b", k, <<>>)>> : k \in KwargsOver({"s"}, GqlValues)}

GqlRichFields ==
    {MkField("a", k, s) : k \in GqlKwargs, s \in GqlNested} \cup
    {MkField("a", NoKwargs, s) : s \in GqlRichNested}

InitGql ==
    /\ optimized = FALSE
    /\ sets = <<selector>>
    /\ called = <<FALSE>>
    /\ last = NoOp
    /\ vcls = <<>>
    /\ vsel = <<>>
    /\ vop = ""
    /\ vres = NoResult
    /\ vagain = NoResult
    /\ gsel \in SeqsUpTo(GqlThinFields, MaxSel) \cup {<<f>> : f \in GqlRichFields}
    /\ gop = NoNode
    /\ gres = NoText
    /\ wrappers = <<>>
    /\ wcmp = NoComparison
    /\ typeref = <<>>
    /\ resolved = <<>>

NextGql ==
    \/ GqlSelectionSet
    \/ \E i \in 1..MaxSel : GqlField(i)
    \/ GqlOperation
    \/ \E cls \in ObjectTypes : GqlInlineFragment(cls)

SpecGql == InitGql /\ [][NextGql]_vars

(***************************************************************************)
(* Claims about the serializer.                                            *)
(***************************************************************************)
Serialized == gres.kind = "text"

\* the lines the arguments add to the first line of a field: a string of n
\* lines adds n - 1
RECURSIVE ExtraLines(_, _)
ExtraLines(kwargs, names) ==
    IF names = {} THEN 0
    ELSE LET k == CHOOSE k \in names : TRUE
         IN  (IF kwargs[k].cls = "str" THEN Len(kwargs[k].elems) - 1 ELSE 0)
             + ExtraLines(kwargs, names \ {k})

\* the nesting depth of every line of a selection, line by line: the lines of
\* the name and the arguments and the line of the closing brace at the depth
\* of the selection, the lines of its children one deeper
RECURSIVE FieldDepths(_, _)
RECURSIVE SetDepths(_, _, _)
FieldDepths(field, d) ==
    [i \in 1..(1 + ExtraLines(field.kwargs, DOMAIN field.kwargs)) |-> d] \o
    (IF field.selection_set = <<>> THEN <<>>
     ELSE SetDepths(field.selection_set, d + 1, 1) \o <<d>>)

SetDepths(selections, d, i) ==
    IF i > Len(selections) THEN <<>>
    ELSE FieldDepths(selections[i], d) \o SetDepths(selections, d, i + 1)

\* the depths of the lines of the node that was serialized; the braces of a
\* selection set, an operation or a fragment are at depth 0
Depths ==
    IF gop.node = "Field" THEN FieldDepths(gsel[gop.index], 0)
    ELSE IF gsel = <<>> THEN <<0>>
    ELSE <<0>> \o SetDepths(gsel, 1, 1) \o <<0>>

\* C14: in the text of any selection tree every line of a selection at
\* nesting depth d starts with exactly 2*d spaces (each block is indented two
\* spaces relative to its parent, one child per line, in insertion order),
\* and a Field with no arguments and no nested selection serializes to
\* exactly its name.
C14_EveryLineIndentedByDepth ==
    Serialized =>
        /\ Len(gres.text) = Len(Depths)
        /\ \A i \in 1..Len(gres.text) : gres.text[i].lead = 2 * Depths[i]
        /\ \A i \in 1..Len(gsel) :
               (gop.node = "Field" /\ gop.index = i /\ gsel[i] = BareField(gsel[i].name))
                   => gres.text = Tok(gsel[i].name)

(***************************************************************************)
(* The wrapper types.  List[arg] and Nullable[arg] each make a class with  *)
(* a call of type(name, bases, dict): a new class object at every call.    *)
(* `wrappers` holds the classes made, in the order of their making; a      *)
(* class is referred to by its name when it is a plain class and by its    *)
(* place in `wrappers` when it is a wrapper.                               *)
(***************************************************************************)
ClassRef(cls) == [base |-> cls, id |-> 0]

WrapperRef(i) == [base |-> "", id |-> i]

\* the plain classes a wrapper is made over
WrappedClasses == {"Dog", "str"}

\* type('List[...]', (List, ), {'__arg__': arg})
WrapperClass(ctor, arg) == [ctor |-> ctor, arg |-> arg]

\* the descriptor of a class: the wrappers from the outside in, then the
\* wrapped class, as __name__ spells it
RECURSIVE Shape(_, _)
Shape(classes, ref) ==
    IF ref.id = 0 THEN <<ref.base>>
    ELSE <<classes[ref.id].ctor>> \o Shape(classes, classes[ref.id].arg)

\* a == b for two classes: neither ListMeta nor NullableMeta defines __eq__,
\* so it is type's, the identity of the objects
ClassEq(a, b) == a = b

\* what List[...] or Nullable[...] may be applied to
Args == {ClassRef(c) : c \in WrappedClasses} \cup {WrapperRef(i) : i \in 1..Len(wrappers)}

\* List[arg]: ListMeta.__getitem__
ListGetItem(arg) ==
    /\ Len(wrappers) < MaxWrappers
    /\ wrappers' = Append(wrappers, WrapperClass("List", arg))
    /\ UNCHANGED <<optimized, sets, called, last, vcls, vsel, vop, vres, vagain,
                   gqlVars, wcmp, refVars>>

\* Nullable[arg]: NullableMeta.__getitem__
NullableGetItem(arg) ==
    /\ Len(wrappers) < MaxWrappers
    /\ wrappers' = Append(wrappers, WrapperClass("Nullable", arg))
    /\ UNCHANGED <<optimized, sets, called, last, vcls, vsel, vop, vres, vagain,
                   gqlVars, wcmp, refVars>>

\* a == b for the i-th and the j-th wrapper made
Compare(i, j) ==
    /\ wcmp' = [left |-> i, right |-> j,
                equal |-> ClassEq(WrapperRef(i), WrapperRef(j))]
    /\ UNCHANGED <<optimized, sets, called, last, vcls, vsel, vop, vres, vagain,
                   gqlVars, wrappers, refVars>>

InitTypes ==
    /\ optimized = FALSE
    /\ sets = <<selector>>
    /\ called = <<FALSE>>
    /\ last = NoOp
    /\ vcls = <<>>
    /\ vsel = <<>>
    /\ vop = ""
    /\ vres = NoResult
    /\ vagain = NoResult
    /\ gsel = <<>>
    /\ gop = NoNode
    /\ gres = NoText
    /\ wrappers = <<>>
    /\ wcmp = NoComparison
    /\ typeref = <<>>
    /\ resolved = <<>>

NextTypes ==
    \/ \E arg \in Args : ListGetItem(arg)
    \/ \E arg \in Args : NullableGetItem(arg)
    \/ \E i, j \in 1..Len(wrappers) : Compare(i, j)

SpecTypes == InitTypes /\ [][NextTypes]_vars

(***************************************************************************)
(* Claims about the wrapper types.                                         *)
(***************************************************************************)
Compared == wcmp.left # 0

\* C15: two wrapper descriptors of the same shape are equal: for every
\* descriptor T, two separately constructed List[T] compare equal, so do two
\* separately constructed Nullable[T], and so do nested wrappers of one shape.
C15_WrappersOfOneShapeCompareEqual ==
    Compared =>
        (Shape(wrappers, WrapperRef(wcmp.left)) = Shape(wrappers, WrapperRef(wcmp.right))
            => wcmp.equal)

(***************************************************************************)
(* TypeRef resolution.  A TypeRef(name, kind, of_type) of an introspection *)
(* document is the sequence of its layers from the outside in: NON_NULL    *)
(* and LIST layers carry no name, the innermost layer names a type.        *)
(* NON_NULL never encloses NON_NULL.  The resolved type is a descriptor.   *)
(***************************************************************************)
TypeRef(name, kind) == [name |-> name, kind |-> kind]

\* the kinds of a layer that names a type
NamedKinds == {"OBJECT", "ENUM", "SCALAR", "INTERFACE"}

\* the classes built so far, by name
RefNames == {"Foo", "Bar"}

TypeRefs ==
    {layers \o <<TypeRef(n, k)>> :
        n \in RefNames, k \in NamedKinds,
        layers \in {w \in SeqsUpTo({TypeRef("", "NON_NULL"), TypeRef("", "LIST")},
                                   MaxRefDepth) :
                       \A i \in 1..(Len(w) - 1) :
                           ~(w[i].kind = "NON_NULL" /\ w[i + 1].kind = "NON_NULL")}}

RECURSIVE resolve_typeref(_)
RECURSIVE ResolveNonNull(_)

\* a resolution that wraps what NON_NULL encloses as well
resolve_typeref_always_nullable(ref) ==
    <<"Nullable">> \o ResolveNonNull(IF ref[1].kind = "NON_NULL" THEN Tail(ref) ELSE ref)

\* resolve_typeref(ref, classes): NON_NULL resolves to what it encloses, with
\* no wrapper; anything else to Nullable[...] of its resolution
resolve_typeref(ref) ==
    IF ref[1].kind = "NON_NULL" THEN ResolveNonNull(Tail(ref))
    ELSE <<"Nullable">> \o ResolveNonNull(ref)

\* the resolution of a layer that is known not to be null: LIST resolves to
\* List[...] of its resolved inner type, a named type to its class
ResolveNonNull(ref) ==
    IF ref[1].kind = "LIST" THEN <<"List">> \o resolve_typeref(Tail(ref))
    ELSE <<ref[1].name>>

\* resolved = resolve_typeref(typeref, classes)
Resolve ==
    /\ resolved = <<>>
    /\ resolved' = resolve_typeref(typeref)
    /\ UNCHANGED <<optimized, sets, called, last, vcls, vsel, vop, vres, vagain,
                   gqlVars, typeVars, typeref>>

InitRefs ==
    /\ optimized = FALSE
    /\ sets = <<selector>>
    /\ called = <<FALSE>>
    /\ last = NoOp
    /\ vcls = <<>>
    /\ vsel = <<>>
    /\ vop = ""
    /\ vres = NoResult
    /\ vagain = NoResult
    /\ gsel = <<>>
    /\ gop = NoNode
    /\ gres = NoText
    /\ wrappers = <<>>
    /\ wcmp = NoComparison
    /\ typeref \in TypeRefs
    /\ resolved = <<>>

NextRefs == Resolve

SpecRefs == InitRefs /\ [][NextRefs]_vars

(***************************************************************************)
(* Claims about TypeRef resolution.                                        *)
(***************************************************************************)
WasResolved == resolved # <<>>

\* what the p-th layer of a TypeRef contributes to the resolved type: NON_NULL
\* nothing; a LIST or a named type its List or its class, with Nullable
\* before it unless NON_NULL directly encloses it
Contribution(ref, p) ==
    IF ref[p].kind = "NON_NULL" THEN <<>>
    ELSE (IF p > 1 /\ ref[p - 1].kind = "NON_NULL" THEN <<>> ELSE <<"Nullable">>)
         \o <<IF ref[p].kind = "LIST" THEN "List" ELSE ref[p].name>>

RECURSIVE ContributionsFrom(_, _)
ContributionsFrom(ref, p) ==
    IF p > Len(ref) THEN <<>>
    ELSE Contribution(ref, p) \o ContributionsFrom(ref, p + 1)

NonNull == TypeRef("", "NON_NULL")

ListOfRef == TypeRef("", "LIST")

Foo == TypeRef("Foo", "OBJECT")

\* C16: NON_NULL resolves to its inner resolved type with no wrapper; a named
\* type or LIST not directly enclosed in NON_NULL resolves to Nullable[...] of
\* its resolution; LIST wraps its resolved inner type in List[...].  So
\* NON_NULL->LIST->NON_NULL->OBJECT(Foo) resolves to List[Foo],
\* NON_NULL->OBJECT(Foo) to Foo, OBJECT(Foo) to Nullable[Foo] and
\* LIST->OBJECT(Foo) to Nullable[List[Nullable[Foo]]].
C16_TypeRefResolution ==
    WasResolved =>
        /\ resolved = ContributionsFrom(typeref, 1)
        /\ typeref = <<NonNull, ListOfRef, NonNull, Foo>> => resolved = <<"List", "Foo">>
        /\ typeref = <<NonNull, Foo>> => resolved = <<"Foo">>
        /\ typeref = <<Foo>> => resolved = <<"Nullable", "Foo">>
        /\ typeref = <<ListOfRef, Foo>>
               => resolved = <<"Nullable", "List", "Nullable", "Foo">>

\* NON_NULL->LIST->NON_NULL->OBJECT(Foo) was resolved, to List[Foo]
C16_NonNullListOfNonNullResolved ==
    /\ typeref = <<NonNull, ListOfRef, NonNull, Foo>>
    /\ resolved = <<"List", "Foo">>

(***************************************************************************)
(* Claims about what validation lets through to the serializer.            *)
(***************************************************************************)
\* the operation keyword followed by the space before the body, and no body
BareKeyword == Cat(Tok("query"), Sp(1))

\* C17: no Operation or InlineFragment produced by successful validation has
\* an empty selection set: T[empty] and query(empty, T) do not succeed, so
\* the text of a validated Operation is never the bare operation keyword.
C17_NoValidatedNodeWithEmptySelectionSet ==
    Succeeded =>
        /\ Len(vres.selection_set) > 0
        /\ (vres.kind = "Operation" /\ vres.selection_set = <<>>)
               => BareKeyword \notin OperationGql(vres.selection_set)

====
